---- MODULE Spec2Model ----
(***************************************************************************)
(* Model of the bridge event listener of src/script.py: the EventScanner   *)
(* cursor (last_scanned_block), TransactionProcessor.process_event, the    *)
(* dispatch call of CrossChainDispatcher and the BridgeOrchestrator.run    *)
(* loop.  The source chain (head height, log query results, faults) and    *)
(* the interrupt signal are the environment.                               *)
(* QueryValidator of src/queryValidation.py is modelled on its own, fed    *)
(* with the queries src/scripts/generate_test_queries.py builds.           *)
(***************************************************************************)
EXTENDS Integers, Sequences, FiniteSets, TLC

\* ---------------------------------------------------------------- bounds
MaxHead == 6        \* the chain head grows up to this height
MaxDepth == 3       \* confirmation_blocks is drawn from 1..MaxDepth
MaxBatch == 2       \* a log query returns at most this many entries
MaxStart == 1       \* an integer start_block is drawn from 0..MaxStart

\* ------------------------------------------------------- program constants
SourceChainId == 11155111
DestChainId == 80001
OtherChainId == DestChainId + 1

Min(a, b) == IF a <= b THEN a ELSE b
Max(a, b) == IF a >= b THEN a ELSE b

\* ----------------------------------------------------------------- events
\* A decoded log entry.  `missing` is the set of keys a lookup of which
\* raises KeyError; transactionHash.type tells whether .hex() exists.
BytesHash == [type |-> "bytes", hex |-> "ab"]
StrHash == [type |-> "str", hex |-> "ab"]

EventAt(b, dest, hash, missing) ==
    [blockNumber |-> b,
     transactionHash |-> hash,
     missing |-> missing,
     args |-> [sender |-> "0xA", destinationChainId |-> dest,
               receiver |-> "0xB", amount |-> 1, nonce |-> 7]]

EventsAt(b) ==
    { EventAt(b, DestChainId, BytesHash, {}),
      EventAt(b, OtherChainId, BytesHash, {}),
      EventAt(b, DestChainId, BytesHash, {"transactionHash"}),
      EventAt(b, DestChainId, StrHash, {}) }

\* What get_all_entries may return for the block range [from, to]: up to
\* MaxBatch entries of blocks of the range, in block order.  The genesis
\* block holds no transaction, so no entry has block number 0 or less.
Entries(from, to) ==
    LET blocks == Max(from, 1)..to
        evs == UNION { EventsAt(b) : b \in blocks }
    IN  { s \in UNION { [1..n -> evs] : n \in 0..MaxBatch } :
            \A k \in 1..(Len(s) - 1) : s[k].blockNumber <= s[k + 1].blockNumber }

\* ------------------------------------------------ EventScanner arithmetic
\* line 176 without the confirmation depth
ToBlock_NoDepth(latest_block, confirmation_depth) == latest_block

\* line 176
ToBlock(latest_block, confirmation_depth) == latest_block - confirmation_depth

\* line 178 with > for >=
NothingNew_Strict(last, to_block) == last > to_block

\* line 178
NothingNew(last, to_block) == last >= to_block

\* line 182 without the + 1
FromBlock_NoStep(last) == last

\* line 182
FromBlock(last) == last + 1

\* line 197 left out: the cursor stays where it was
CursorOnSuccess_Stale(last, to_block) == last

\* line 197: the cursor after a successful query
CursorOnSuccess(last, to_block) == to_block

\* line 197 moved before the query: the cursor advances although it failed
CursorOnError_Advanced(last, to_block) == to_block

\* lines 206-208: the cursor after an unexpected error
CursorOnError(last, to_block) == last

\* line 204: the cursor after BlockNotFound, h being the head re-read there
RewindCursor(h, confirmation_depth) == h - (confirmation_depth * 2)

\* ------------------------------------------- TransactionProcessor.process_event
\* lines 236-237 with sender and receiver taken from each other's argument
Payload_Swapped(event) ==
    [sourceTransactionHash |-> event.transactionHash.hex,
     sourceBlockNumber |-> event.blockNumber,
     sender |-> event.args.receiver,
     receiver |-> event.args.sender,
     amount |-> event.args.amount,
     nonce |-> event.args.nonce,
     sourceChainId |-> SourceChainId,
     destinationChainId |-> event.args.destinationChainId]

\* lines 233-242
Payload(event) ==
    [sourceTransactionHash |-> event.transactionHash.hex,
     sourceBlockNumber |-> event.blockNumber,
     sender |-> event.args.sender,
     receiver |-> event.args.receiver,
     amount |-> event.args.amount,
     nonce |-> event.args.nonce,
     sourceChainId |-> SourceChainId,
     destinationChainId |-> event.args.destinationChainId]

\* The exception types the except clause of process_event catches.
Caught == {"KeyError", "TypeError"}

\* The first exception the body of process_event raises, "" when none.
\* The destination test comes before any other lookup.
RaisedBy(event) ==
    IF "args" \in event.missing \/ "destinationChainId" \in event.missing
    THEN "KeyError"
    ELSE IF event.args.destinationChainId # DestChainId
    THEN (IF "nonce" \in event.missing THEN "KeyError" ELSE "")
    ELSE IF "transactionHash" \in event.missing THEN "KeyError"
    ELSE IF event.transactionHash.type # "bytes" THEN "AttributeError"
    ELSE IF event.missing # {} THEN "KeyError"
    ELSE ""

\* lines 229-231 left out: every event that can be read yields a payload
ProcessEvent_NoFilter(event) ==
    LET exc == RaisedBy(event) IN
    IF exc # ""
    THEN (IF exc \in Caught THEN [outcome |-> "none"]
                            ELSE [outcome |-> "raise"])
    ELSE [outcome |-> "payload", payload |-> Payload(event)]

\* lines 222-247
ProcessEvent(event) ==
    LET exc == RaisedBy(event) IN
    IF exc # ""
    THEN (IF exc \in Caught THEN [outcome |-> "none"]
                            ELSE [outcome |-> "raise"])
    ELSE IF event.args.destinationChainId # DestChainId
    THEN [outcome |-> "none"]
    ELSE [outcome |-> "payload", payload |-> Payload(event)]

\* ------------------------------------- CrossChainDispatcher.dispatch, line 269
\* A JSON value of a payload field: an integer or a string, by its text.
IntValue(text) == [type |-> "int", text |-> text]
StrValue(text) == [type |-> "str", text |-> text]

\* json.dumps of one value: a string is put between quotes, an integer not
Encode(value) ==
    IF value.type = "str" THEN <<"\"", value.text, "\"">> ELSE <<value.text>>

\* the keys of a payload in the order lines 233-242 insert them
InsertionOrder ==
    <<"sourceTransactionHash", "sourceBlockNumber", "sender", "receiver",
      "amount", "nonce", "sourceChainId", "destinationChainId">>

\* the same keys as sorted() orders them
KeyOrder ==
    <<"amount", "destinationChainId", "nonce", "receiver", "sender",
      "sourceBlockNumber", "sourceChainId", "sourceTransactionHash">>

\* A dict is the sequence of its items in insertion order.
HasKey(dct, key) == \E n \in 1..Len(dct) : dct[n].key = key

ValueOf(dct, key) ==
    LET n == CHOOSE n \in 1..Len(dct) : dct[n].key = key IN dct[n].value

\* json.dumps(payload) without sort_keys: the items in insertion order
Serialize_Unsorted(dct) ==
    [n \in 1..Len(dct) |-> <<dct[n].key, Encode(dct[n].value)>>]

\* json.dumps(payload, sort_keys=True): the items in the order of their keys
Serialize(dct) ==
    LET InDict(key) == HasKey(dct, key)
        keys == SelectSeq(KeyOrder, InDict)
    IN  [n \in 1..Len(keys) |-> <<keys[n], Encode(ValueOf(dct, keys[n]))>>]

\* the payload dicts to serialise: the insertion order of the code, its
\* reverse and one in between; amount, nonce and sender vary
Reverse(seq) == [n \in 1..Len(seq) |-> seq[Len(seq) + 1 - n]]

Rotate(seq) == Append(Tail(seq), Head(seq))

InsertionOrders == {InsertionOrder, Reverse(InsertionOrder), Rotate(InsertionOrder)}

FieldValues ==
    [sourceTransactionHash : {StrValue("ab")},
     sourceBlockNumber : {IntValue("1")},
     sender : {StrValue("0xA"), StrValue("0xB")},
     receiver : {StrValue("0xB")},
     amount : {IntValue("1"), IntValue("2"), StrValue("1")},
     nonce : {IntValue("7"), IntValue("8")},
     sourceChainId : {IntValue("11155111")},
     destinationChainId : {IntValue("80001")}]

DictOf(order, fields) ==
    [n \in 1..Len(order) |-> [key |-> order[n], value |-> fields[order[n]]]]

Dicts == {DictOf(order, fields) : order \in InsertionOrders, fields \in FieldValues}

\* ------------------------------------------- QueryValidator (queryValidation.py)
MaxRules == 2       \* a rules array holds at most this many entries
MaxNest == 1        \* groups are nested at most this deep inside the query

\* A JSON value of a query: a dict with the keys in `keys`, a list with the
\* elements `items`, or a string.  rules_is_list tells whether the value
\* under 'rules' is a list, `rules` are its elements.
Node(type, keys, combinator, rules_is_list, rules, field, operator, value, items) ==
    [type |-> type, keys |-> keys, combinator |-> combinator,
     rules_is_list |-> rules_is_list, rules |-> rules, field |-> field,
     operator |-> operator, value |-> value, items |-> items]

RuleNode(keys, field, operator, value) ==
    Node("dict", keys, "", FALSE, <<>>, field, operator, value, <<>>)

GroupNode(keys, combinator, rules_is_list, rules) ==
    Node("dict", keys, combinator, rules_is_list, rules, "", "", "", <<>>)

ListNode(items) == Node("list", {}, "", FALSE, <<>>, "", "", "", items)

StrNode == Node("str", {}, "", FALSE, <<>>, "", "", "", <<>>)

\* str(i) of line 42
IndexStr(n) == <<"0", "1", "2", "3", "4", "5", "6", "7", "8", "9">>[n + 1]

\* The fields the validator is constructed with (line 18): 'age' lists its
\* operators, 'firstName' has no 'operators' entry.
FieldNames == {"age", "firstName"}

HasOperators(name) == name = "age"

OperatorsOf(name) == {"=", "<"}

ValidationError(path, message, field) ==
    [path |-> path, message |-> message, field |-> field]

RECURSIVE _validate_query(_, _)
RECURSIVE _validate_rule(_, _)
RECURSIVE _validate_rules(_, _, _)

\* lines 28-44: the errors appended, in order
_validate_query(query, path) ==
    IF query.type # "dict"
    THEN <<ValidationError(path, "Query must be an object", "")>>
    ELSE LET combinator ==
                 IF "combinator" \notin query.keys
                 THEN <<ValidationError(path, "Missing combinator", "")>>
                 ELSE IF query.combinator \notin {"and", "or"}
                 THEN <<ValidationError(path, "Invalid combinator", "")>>
                 ELSE <<>>
         IN  IF "rules" \notin query.keys \/ ~query.rules_is_list
             THEN combinator \o
                  <<ValidationError(path, "Missing or invalid rules array", "")>>
             ELSE combinator \o _validate_rules(query.rules, 1, path)

\* lines 41-43: the loop over the rules array from its k-th entry on
_validate_rules(rules, k, path) ==
    IF k > Len(rules) THEN <<>>
    ELSE _validate_rule(rules[k], path \o <<IndexStr(k - 1)>>)
         \o _validate_rules(rules, k + 1, path)

\* lines 46-67
_validate_rule(rule, path) ==
    IF rule.type = "dict"
    THEN IF ~({"field", "operator", "value"} \subseteq rule.keys)
         THEN <<ValidationError(path, "Rule missing required fields", "")>>
         ELSE (IF rule.field \notin FieldNames
               THEN <<ValidationError(path, "Unknown field", "field")>>
               ELSE <<>>)
              \o (IF /\ rule.field \in FieldNames
                     /\ HasOperators(rule.field)
                     /\ rule.operator \notin OperatorsOf(rule.field)
                  THEN <<ValidationError(path, "Invalid operator for field",
                                         "operator")>>
                  ELSE <<>>)
              \o (IF rule.value = ""
                  THEN <<ValidationError(path, "Value cannot be empty", "value")>>
                  ELSE <<>>)
    ELSE IF rule.type = "list"
    THEN _validate_query(rule.items[1], path)
    ELSE <<ValidationError(path, "Invalid rule format", "")>>

\* The rule objects fed to the validator: one as generate_rule makes them
\* (lines 57-65 of generate_test_queries.py), and one for each check of
\* _validate_rule that fails.
RuleKeys == {"id", "field", "operator", "value"}

Rules ==
    { RuleNode(RuleKeys, "age", "=", "42"),
      RuleNode(RuleKeys, "zip", "=", "42"),
      RuleNode(RuleKeys, "age", "contains", "42"),
      RuleNode(RuleKeys, "firstName", "contains", ""),
      RuleNode({"id", "field", "operator"}, "age", "=", "") }

\* arrays of at most MaxRules elements of S
Arrays(S) == UNION { [1..n -> S] : n \in 0..MaxRules }

\* The query groups with groups nested at most n deep: a nested group is
\* the group object generate_query_group appends (lines 75-83), or that
\* object wrapped in a one-element list.
RECURSIVE Groups(_)
Groups(n) ==
    LET nested == IF n = 0 THEN {} ELSE Groups(n - 1)
        entries == Rules \cup {StrNode} \cup nested
                         \cup { ListNode(<<g>>) : g \in nested }
    IN  { GroupNode({"id", "combinator", "rules"}, c, TRUE, r) :
              c \in {"and", "xor"}, r \in Arrays(entries) }
        \cup { GroupNode({"id", "rules"}, "", TRUE, <<>>),
               GroupNode({"id", "combinator"}, "or", FALSE, <<>>),
               GroupNode({"id", "combinator", "rules"}, "or", FALSE, <<>>) }

\* ------------------------------------------------------------------ state
VARIABLES
    head,                \* height of the source chain (environment)
    confirmation_blocks, \* config['confirmation_blocks']
    last_scanned_block,  \* EventScanner.last_scanned_block, the cursor
    is_running,          \* BridgeOrchestrator.is_running
    pc,                  \* position of run(): scan, process, dispatch,
                         \* sleep, backoff, stopped, aborted
    confirmed_events,    \* the batch the last scan returned to run()
    i,                   \* index of the event of the batch handled next
    caught,              \* what the catch-all of run() last absorbed
    poll,                \* record of the last scan_for_events call
    start_block,         \* the cursor at construction
    covered,             \* blocks inside the range of a successful query
    rewound,             \* a BlockNotFound rewind has happened
    handed,              \* the latest payloads handed to dispatch
    trace,               \* what became of each event of the batch so far
    signatures,          \* signHash calls that succeeded since the last scan
    attempts,            \* requests.post calls made since the last scan
    config,              \* what the constructor is given besides the depth
    ser,                 \* two payload dicts and their serialisations
    val                  \* a query and what QueryValidator makes of it

vars == <<head, confirmation_blocks, last_scanned_block, is_running, pc,
          confirmed_events, i, caught, poll, start_block, covered, rewound,
          handed, trace, signatures, attempts, config, ser, val>>

\* the dispatcher's bookkeeping of the current iteration
dispatcher == <<trace, signatures, attempts>>

NoSer == [a |-> <<>>, b |-> <<>>, message_a |-> <<>>, message_b |-> <<>>]

NoVal == [query |-> StrNode, validated |-> FALSE, errors |-> <<>>,
          is_valid |-> "unasked"]

NoPoll == [outcome |-> "none", head_read |-> FALSE, latest_block |-> 0,
           before |-> 0, queried |-> FALSE, from_block |-> 0, to_block |-> 0,
           entries |-> <<>>, reread |-> 0]

\* ------------------------------------------------------------ construction
\* config['listener']['start_block']: 'latest', an integer, or anything else
StartSpecs ==
    {[kind |-> "latest", value |-> 0], [kind |-> "other", value |-> 0]}
    \cup {[kind |-> "int", value |-> n] : n \in 0..MaxStart}

\* private_key "" stands for a key that is None or empty; contract_ok says
\* whether the connector is connected and hands out the contract;
\* listener_in_source whether config['source_chain'] holds a 'listener' entry
\* when the scanner is constructed (line 334 adds it only afterwards).
Configs ==
    [private_key : {"", "key"},
     start_block : StartSpecs,
     contract_ok : BOOLEAN,
     listener_in_source : BOOLEAN]

\* lines 155-160 with the else branch left out
ConstructError_AnyStart(cfg) ==
    IF cfg.private_key = "" THEN "ValueError"
    ELSE IF ~cfg.contract_ok THEN "RuntimeError"
    ELSE IF ~cfg.listener_in_source THEN "KeyError"
    ELSE ""

\* The exception BridgeOrchestrator.__init__ raises for cfg, "" when none:
\* line 320, then lines 148-149, then lines 154-160.
ConstructError(cfg) ==
    IF cfg.private_key = "" THEN "ValueError"
    ELSE IF ~cfg.contract_ok THEN "RuntimeError"
    ELSE IF ~cfg.listener_in_source THEN "KeyError"
    ELSE IF cfg.start_block.kind \notin {"latest", "int"} THEN "ValueError"
    ELSE ""

\* lines 152-158
InitialStartBlock(cfg, latest) ==
    IF cfg.start_block.kind = "latest" THEN latest ELSE cfg.start_block.value

\* The state in which run() starts its first iteration: __init__ went
\* through and line 352 has set is_running.
Init ==
    /\ head \in 0..MaxStart
    /\ confirmation_blocks \in 1..MaxDepth
    /\ config \in {cfg \in Configs : ConstructError(cfg) = ""}
    /\ last_scanned_block = InitialStartBlock(config, head)
    /\ start_block = last_scanned_block
    /\ is_running = TRUE
    /\ pc = "scan"
    /\ confirmed_events = <<>>
    /\ i = 1
    /\ caught = "none"
    /\ poll = NoPoll
    /\ covered = {}
    /\ rewound = FALSE
    /\ handed = <<>>
    /\ trace = <<>>
    /\ signatures = 0
    /\ attempts = 0
    /\ ser = NoSer
    /\ val = NoVal

\* ------------------------------------------------------------ environment
\* The program looks at the head only in scan_for_events (lines 172, 204)
\* and in _get_initial_start_block (line 155): what the chain grew since the
\* last look shows at the next one, before a poll or before construction.
ChainAdvance ==
    /\ head < MaxHead
    /\ pc \in {"scan", "idle", "constructed", "crashed"}
    /\ head' = head + 1
    /\ UNCHANGED <<confirmation_blocks, last_scanned_block, is_running, pc,
                   confirmed_events, i, caught, poll, start_block, covered,
                   rewound, handed, dispatcher, config, ser, val>>

\* ------------------------------------------------- EventScanner.scan_for_events
\* run() after scan_for_events returned `events` (lines 356-367).
Returned(events) ==
    /\ confirmed_events' = events
    /\ i' = 1
    /\ caught' = "none"
    /\ pc' = IF events = <<>> THEN "sleep" ELSE "process"
    /\ trace' = <<>>
    /\ signatures' = 0
    /\ attempts' = 0

\* run() after scan_for_events raised (lines 372-375).
Propagated ==
    /\ confirmed_events' = <<>>
    /\ i' = 1
    /\ caught' = "scan"
    /\ pc' = "backoff"
    /\ trace' = <<>>
    /\ signatures' = 0
    /\ attempts' = 0

ScanFrame == UNCHANGED <<confirmation_blocks, is_running, start_block, handed,
                         config, ser, val>>

\* lines 167-169: the connector is not available
ScanUnavailable ==
    /\ pc = "scan"
    /\ poll' = [NoPoll EXCEPT !.outcome = "unavailable",
                              !.before = last_scanned_block]
    /\ Returned(<<>>)
    /\ UNCHANGED <<head, last_scanned_block, covered, rewound>>
    /\ ScanFrame

\* line 172 raises an error other than BlockNotFound (lines 206-208)
ScanHeadError ==
    /\ pc = "scan"
    /\ poll' = [NoPoll EXCEPT !.outcome = "error",
                              !.before = last_scanned_block]
    /\ last_scanned_block' = CursorOnError(last_scanned_block, last_scanned_block)
    /\ Returned(<<>>)
    /\ UNCHANGED <<head, covered, rewound>>
    /\ ScanFrame

\* line 172 raises BlockNotFound: the handler of line 200 runs before
\* confirmation_depth is bound, and line 204 raises out of the scan.
ScanHeadBlockNotFound ==
    /\ pc = "scan"
    /\ poll' = [NoPoll EXCEPT !.outcome = "raised",
                              !.before = last_scanned_block]
    /\ Propagated
    /\ UNCHANGED <<head, last_scanned_block, covered, rewound>>
    /\ ScanFrame

\* lines 172-180: nothing new to scan
ScanNothingNew ==
    /\ pc = "scan"
    /\ LET to_block == ToBlock(head, confirmation_blocks) IN
       /\ NothingNew(last_scanned_block, to_block)
       /\ poll' = [NoPoll EXCEPT !.outcome = "nothing_new",
                                 !.head_read = TRUE,
                                 !.latest_block = head,
                                 !.before = last_scanned_block,
                                 !.to_block = to_block]
    /\ Returned(<<>>)
    /\ UNCHANGED <<head, last_scanned_block, covered, rewound>>
    /\ ScanFrame

\* lines 182-198: the log query succeeds
ScanOk ==
    /\ pc = "scan"
    /\ LET to_block == ToBlock(head, confirmation_blocks)
           from_block == FromBlock(last_scanned_block) IN
       /\ ~NothingNew(last_scanned_block, to_block)
       /\ \E new_events \in Entries(from_block, to_block) :
            /\ poll' = [NoPoll EXCEPT !.outcome = "ok",
                                      !.head_read = TRUE,
                                      !.latest_block = head,
                                      !.before = last_scanned_block,
                                      !.queried = TRUE,
                                      !.from_block = from_block,
                                      !.to_block = to_block,
                                      !.entries = new_events]
            /\ Returned(new_events)
       /\ last_scanned_block' = CursorOnSuccess(last_scanned_block, to_block)
       /\ covered' = covered \cup (from_block..to_block)
    /\ UNCHANGED <<head, rewound>>
    /\ ScanFrame

\* lines 185-190 raise an error other than BlockNotFound (lines 206-208)
ScanQueryError ==
    /\ pc = "scan"
    /\ LET to_block == ToBlock(head, confirmation_blocks)
           from_block == FromBlock(last_scanned_block) IN
       /\ ~NothingNew(last_scanned_block, to_block)
       /\ poll' = [NoPoll EXCEPT !.outcome = "error",
                                 !.head_read = TRUE,
                                 !.latest_block = head,
                                 !.before = last_scanned_block,
                                 !.queried = TRUE,
                                 !.from_block = from_block,
                                 !.to_block = to_block]
       /\ last_scanned_block' = CursorOnError(last_scanned_block, to_block)
    /\ Returned(<<>>)
    /\ UNCHANGED <<head, covered, rewound>>
    /\ ScanFrame

\* lines 185-190 raise BlockNotFound and line 204 reads the head again,
\* which may have grown in between (lines 200-205)
ScanRewind ==
    /\ pc = "scan"
    /\ LET to_block == ToBlock(head, confirmation_blocks)
           from_block == FromBlock(last_scanned_block) IN
       /\ ~NothingNew(last_scanned_block, to_block)
       /\ \E h \in head..Min(head + 1, MaxHead) :
            /\ head' = h
            /\ poll' = [NoPoll EXCEPT !.outcome = "rewind",
                                      !.head_read = TRUE,
                                      !.latest_block = head,
                                      !.before = last_scanned_block,
                                      !.queried = TRUE,
                                      !.from_block = from_block,
                                      !.to_block = to_block,
                                      !.reread = h]
            /\ last_scanned_block' = RewindCursor(h, confirmation_blocks)
    /\ rewound' = TRUE
    /\ Returned(<<>>)
    /\ UNCHANGED covered
    /\ ScanFrame

\* lines 185-190 raise BlockNotFound and the read of the head at line 204
\* raises: the exception leaves scan_for_events
ScanRewindRaises ==
    /\ pc = "scan"
    /\ LET to_block == ToBlock(head, confirmation_blocks)
           from_block == FromBlock(last_scanned_block) IN
       /\ ~NothingNew(last_scanned_block, to_block)
       /\ poll' = [NoPoll EXCEPT !.outcome = "raised",
                                 !.head_read = TRUE,
                                 !.latest_block = head,
                                 !.before = last_scanned_block,
                                 !.queried = TRUE,
                                 !.from_block = from_block,
                                 !.to_block = to_block]
    /\ Propagated
    /\ UNCHANGED <<head, last_scanned_block, covered, rewound>>
    /\ ScanFrame

\* --------------------------------------------------- BridgeOrchestrator.run
\* the loop putting the cursor back to where the poll found it
LoopFrame_CursorReset ==
    /\ last_scanned_block' = poll.before
    /\ UNCHANGED <<head, confirmation_blocks, is_running, confirmed_events,
                   poll, start_block, covered, rewound, config, ser, val>>

\* lines 358-367 touch nothing of the scanner
LoopFrame == UNCHANGED <<head, confirmation_blocks, last_scanned_block,
                         is_running, confirmed_events, poll, start_block,
                         covered, rewound, config, ser, val>>

\* the for loop of line 362 moves on to the next event, or to line 367
NextEvent ==
    /\ i' = i + 1
    /\ pc' = IF i + 1 > Len(confirmed_events) THEN "sleep" ELSE "process"

\* the window of the latest payloads handed to dispatch
Hand(payload) ==
    handed' = IF Len(handed) < 2 THEN Append(handed, payload)
                                 ELSE Append(Tail(handed), payload)

\* lines 363-364: process_event drops the event
ProcessDrop ==
    /\ pc = "process"
    /\ ProcessEvent(confirmed_events[i]).outcome = "none"
    /\ NextEvent
    /\ trace' = Append(trace, "dropped")
    /\ UNCHANGED <<caught, handed, signatures, attempts>>
    /\ LoopFrame

\* line 363: process_event raises, the catch-all of line 372 takes over
ProcessRaise ==
    /\ pc = "process"
    /\ ProcessEvent(confirmed_events[i]).outcome = "raise"
    /\ i' = i + 1
    /\ caught' = "process"
    /\ pc' = "backoff"
    /\ trace' = Append(trace, "raised")
    /\ UNCHANGED <<handed, signatures, attempts>>
    /\ LoopFrame

\* line 365 without the await: the delivery is started and the loop goes on
DispatchStart_NoAwait ==
    /\ pc = "process"
    /\ LET r == ProcessEvent(confirmed_events[i]) IN
       /\ r.outcome = "payload"
       /\ Hand(r.payload)
    /\ NextEvent
    /\ trace' = Append(trace, "pending")
    /\ signatures' = signatures + 1
    /\ attempts' = attempts + 1
    /\ UNCHANGED caught
    /\ LoopFrame

\* lines 363-365 and 267-282: the payload is handed to dispatch, signed,
\* and the delivery call is in flight
DispatchStart ==
    /\ pc = "process"
    /\ LET r == ProcessEvent(confirmed_events[i]) IN
       /\ r.outcome = "payload"
       /\ Hand(r.payload)
    /\ pc' = "dispatch"
    /\ trace' = Append(trace, "pending")
    /\ signatures' = signatures + 1
    /\ attempts' = attempts + 1
    /\ UNCHANGED <<i, caught>>
    /\ LoopFrame

\* lines 267-273 and 284-285: serialising or signing fails inside dispatch,
\* which logs and returns
DispatchSignFails ==
    /\ pc = "process"
    /\ LET r == ProcessEvent(confirmed_events[i]) IN
       /\ r.outcome = "payload"
       /\ Hand(r.payload)
    /\ NextEvent
    /\ trace' = Append(trace, "unsigned")
    /\ UNCHANGED <<caught, signatures, attempts>>
    /\ LoopFrame

\* lines 306-307 with a second requests.post after a failure
Retries_Once(outcome) == IF outcome = "failed" THEN 1 ELSE 0

\* lines 306-307: a failed delivery is logged, the call is not repeated
Retries(outcome) == 0

\* lines 299-307: the delivery call ends, well ("delivered") or with a
\* RequestException ("failed"), and dispatch returns
DispatchReturn ==
    /\ pc = "dispatch"
    /\ \E outcome \in {"delivered", "failed"} :
         /\ trace' = [trace EXCEPT ![i] = outcome]
         /\ attempts' = attempts + Retries(outcome)
    /\ NextEvent
    /\ UNCHANGED <<caught, handed, signatures>>
    /\ LoopFrame

\* The loop is back at line 353: the batch, the exception and the records
\* of the iteration that ended are dead, the next scan replaces them; of the
\* payloads handed so far only the latest is compared with a later one.
NewIteration ==
    /\ pc' = "scan"
    /\ confirmed_events' = <<>>
    /\ i' = 1
    /\ caught' = "none"
    /\ poll' = NoPoll
    /\ trace' = <<>>
    /\ signatures' = 0
    /\ attempts' = 0
    /\ handed' = IF Len(handed) = 2 THEN Tail(handed) ELSE handed
    /\ UNCHANGED <<head, confirmation_blocks, last_scanned_block, is_running,
                   start_block, covered, rewound, config, ser, val>>

\* line 367 and the loop test of line 353
SleepDone ==
    /\ pc = "sleep"
    /\ is_running
    /\ NewIteration

\* line 375 and the loop test of line 353
BackoffDone ==
    /\ pc = "backoff"
    /\ is_running
    /\ NewIteration

\* lines 369-371: KeyboardInterrupt is raised inside the try block
Interrupt ==
    /\ pc \in {"scan", "process", "dispatch", "sleep"}
    /\ is_running' = FALSE
    /\ pc' = "stopped"
    /\ UNCHANGED <<head, confirmation_blocks, last_scanned_block,
                   confirmed_events, i, caught, poll, start_block, covered,
                   rewound, handed, dispatcher, config, ser, val>>

\* The task is cancelled at an await (lines 365, 367, 375), or interrupted
\* inside the handler of line 372: no except clause of run() matches and
\* the exception leaves run().
Abort ==
    /\ pc \in {"dispatch", "sleep", "backoff"}
    /\ pc' = "aborted"
    /\ UNCHANGED <<head, confirmation_blocks, last_scanned_block, is_running,
                   confirmed_events, i, caught, poll, start_block, covered,
                   rewound, handed, dispatcher, config, ser, val>>

Next ==
    \/ ChainAdvance
    \/ ScanUnavailable
    \/ ScanHeadError
    \/ ScanHeadBlockNotFound
    \/ ScanNothingNew
    \/ ScanOk
    \/ ScanQueryError
    \/ ScanRewind
    \/ ScanRewindRaises
    \/ ProcessDrop
    \/ ProcessRaise
    \/ DispatchStart
    \/ DispatchSignFails
    \/ DispatchReturn
    \/ SleepDone
    \/ BackoffDone
    \/ Interrupt
    \/ Abort

Spec == Init /\ [][Next]_vars

\* The steps run() takes by itself: the event loop keeps resuming the task,
\* so a step of the loop that stays possible is eventually taken.  Which
\* way a scan or a delivery goes stays the environment's choice.
LoopStep ==
    \/ ScanUnavailable
    \/ ScanHeadError
    \/ ScanHeadBlockNotFound
    \/ ScanNothingNew
    \/ ScanOk
    \/ ScanQueryError
    \/ ScanRewind
    \/ ScanRewindRaises
    \/ ProcessDrop
    \/ ProcessRaise
    \/ DispatchStart
    \/ DispatchSignFails
    \/ DispatchReturn
    \/ SleepDone
    \/ BackoffDone

SpecLive == Init /\ [][Next]_vars /\ WF_vars(LoopStep)

\* -------------------------------------------------------------------- main
\* Before main() runs: nothing is constructed, the configuration is any.
InitBoot ==
    /\ head \in 0..MaxStart
    /\ confirmation_blocks \in 1..MaxDepth
    /\ config \in Configs
    /\ last_scanned_block = 0
    /\ start_block = 0
    /\ is_running = FALSE
    /\ pc = "idle"
    /\ confirmed_events = <<>>
    /\ i = 1
    /\ caught = "none"
    /\ poll = NoPoll
    /\ covered = {}
    /\ rewound = FALSE
    /\ handed = <<>>
    /\ trace = <<>>
    /\ signatures = 0
    /\ attempts = 0
    /\ ser = NoSer
    /\ val = NoVal

\* line 383: BridgeOrchestrator(CONFIG) returns or raises; whatever it
\* raises, line 384 is not reached
Construct ==
    /\ pc = "idle"
    /\ IF ConstructError(config) = ""
       THEN /\ pc' = "constructed"
            /\ last_scanned_block' = InitialStartBlock(config, head)
            /\ start_block' = InitialStartBlock(config, head)
       ELSE /\ pc' = "crashed"
            /\ UNCHANGED <<last_scanned_block, start_block>>
    /\ UNCHANGED <<head, confirmation_blocks, is_running, confirmed_events, i,
                   caught, poll, covered, rewound, handed, dispatcher, config, ser,
                   val>>

\* lines 384 and 351-353: run() starts
Start ==
    /\ pc = "constructed"
    /\ is_running' = TRUE
    /\ pc' = "scan"
    /\ UNCHANGED <<head, confirmation_blocks, last_scanned_block,
                   confirmed_events, i, caught, poll, start_block, covered,
                   rewound, handed, dispatcher, config, ser, val>>

NextBoot ==
    \/ Construct
    \/ Start
    \/ Next

SpecBoot == InitBoot /\ [][NextBoot]_vars

\* ------------------------------------------------ serialisation on its own
\* Two payload dicts are given; each is serialised as line 269 does.
InitSer ==
    /\ head = 0
    /\ confirmation_blocks = 1
    /\ config \in {cfg \in Configs : ConstructError(cfg) = ""
                                      /\ cfg.start_block.kind = "latest"}
    /\ last_scanned_block = 0
    /\ start_block = 0
    /\ is_running = FALSE
    /\ pc = "constructed"
    /\ confirmed_events = <<>>
    /\ i = 1
    /\ caught = "none"
    /\ poll = NoPoll
    /\ covered = {}
    /\ rewound = FALSE
    /\ handed = <<>>
    /\ trace = <<>>
    /\ signatures = 0
    /\ attempts = 0
    /\ \E a \in Dicts, b \in Dicts : ser = [NoSer EXCEPT !.a = a, !.b = b]
    /\ val = NoVal

SerFrame == UNCHANGED <<head, confirmation_blocks, last_scanned_block,
                        is_running, pc, confirmed_events, i, caught, poll,
                        start_block, covered, rewound, handed, dispatcher,
                        config, val>>

SerializeFirst ==
    /\ ser.message_a = <<>>
    /\ ser' = [ser EXCEPT !.message_a = Serialize(ser.a)]
    /\ SerFrame

SerializeSecond ==
    /\ ser.message_b = <<>>
    /\ ser' = [ser EXCEPT !.message_b = Serialize(ser.b)]
    /\ SerFrame

NextSer ==
    \/ SerializeFirst
    \/ SerializeSecond

SpecSer == InitSer /\ [][NextSer]_vars

\* ---------------------------------------------------- validation on its own
\* A QueryValidator is constructed with the fields and given a query.
InitVal ==
    /\ head = 0
    /\ confirmation_blocks = 1
    /\ config \in {cfg \in Configs : ConstructError(cfg) = ""
                                      /\ cfg.start_block.kind = "latest"}
    /\ last_scanned_block = 0
    /\ start_block = 0
    /\ is_running = FALSE
    /\ pc = "constructed"
    /\ confirmed_events = <<>>
    /\ i = 1
    /\ caught = "none"
    /\ poll = NoPoll
    /\ covered = {}
    /\ rewound = FALSE
    /\ handed = <<>>
    /\ trace = <<>>
    /\ signatures = 0
    /\ attempts = 0
    /\ ser = NoSer
    /\ \E query \in Groups(MaxNest) : val = [NoVal EXCEPT !.query = query]

ValFrame == UNCHANGED <<head, confirmation_blocks, last_scanned_block,
                        is_running, pc, confirmed_events, i, caught, poll,
                        start_block, covered, rewound, handed, dispatcher,
                        config, ser>>

\* lines 21-26: validate(query)
validate ==
    /\ ~val.validated
    /\ val' = [val EXCEPT !.validated = TRUE,
                          !.errors = _validate_query(val.query, <<>>)]
    /\ ValFrame

\* lines 69-71: is_valid() after a validate
is_valid ==
    /\ val.validated
    /\ val.is_valid = "unasked"
    /\ val' = [val EXCEPT !.is_valid = IF Len(val.errors) = 0 THEN "yes"
                                                              ELSE "no"]
    /\ ValFrame

NextVal ==
    \/ validate
    \/ is_valid

SpecVal == InitVal /\ [][NextVal]_vars

TypeOK ==
    /\ head \in 0..MaxHead
    /\ pc \in {"scan", "process", "dispatch", "sleep", "backoff", "stopped",
               "aborted", "idle", "constructed", "crashed"}
    /\ is_running \in BOOLEAN

\* ------------------------------------------------------------------ claims
d == confirmation_blocks

Last(s) == s[Len(s)]

\* C1: every block above the initial cursor and up to the current cursor
\* lies in the range of some log query that succeeded.
C1_NoBlockSkipped ==
    \A b \in (start_block + 1)..last_scanned_block : b \in covered

\* C2: after a range-unavailable fault the poll returns no events and the
\* cursor is max(0, h - 2d), h being the head read while rewinding.
C2_RewindClamped ==
    poll.outcome = "rewind" =>
        /\ confirmed_events = <<>>
        /\ last_scanned_block = Max(0, poll.reread - 2 * d)

\* C3: no call of scan_for_events ends by raising to its caller.
C3_ScanNeverRaises == poll.outcome # "raised"

\* C4: a poll that reads a head with head - confirmation_depth <= cursor
\* returns an empty list, issues no log query and keeps the cursor.
C4_NothingNew ==
    (poll.head_read /\ poll.latest_block - d <= poll.before) =>
        /\ poll.outcome = "nothing_new"
        /\ ~poll.queried
        /\ confirmed_events = <<>>
        /\ last_scanned_block = poll.before

C4_Witness ==
    /\ poll.outcome = "nothing_new"
    /\ poll.latest_block - d = poll.before
    /\ poll.before > start_block
    /\ pc = "sleep"

\* C5: a poll whose log query succeeds had cursor < head - depth, queried
\* exactly [cursor + 1, head - depth], leaves the cursor at head - depth and
\* returns the entries of the query; a poll whose query failed with an
\* unexpected error, or that raised, has not assigned the cursor.
C5_SuccessfulQuery ==
    /\ poll.outcome = "ok" =>
        /\ poll.before < poll.latest_block - d
        /\ poll.from_block = poll.before + 1
        /\ poll.to_block = poll.latest_block - d
        /\ last_scanned_block = poll.latest_block - d
        /\ confirmed_events = poll.entries
    /\ (poll.queried /\ poll.outcome \in {"error", "raised"}) =>
        last_scanned_block = poll.before

C5_Witness ==
    /\ poll.outcome = "ok"
    /\ poll.from_block < poll.to_block
    /\ Len(confirmed_events) = MaxBatch
    /\ last_scanned_block = poll.to_block
    /\ pc = "process"

\* C6: no event of the batch a scan returned, and no payload in dispatch,
\* has a block number above head - confirmation_depth of that poll.
C6_ConfirmedOnly ==
    /\ \A k \in 1..Len(confirmed_events) :
          confirmed_events[k].blockNumber <= poll.latest_block - d
    /\ pc = "dispatch" =>
          Last(handed).sourceBlockNumber <= poll.latest_block - d

C6_Witness ==
    /\ pc = "dispatch"
    /\ Last(handed).sourceBlockNumber = poll.latest_block - d
    /\ poll.from_block < poll.to_block

\* C7: a poll that finds the connector unavailable, or that fails with an
\* error other than BlockNotFound, returns an empty list and keeps the cursor.
C7_FailureKeepsCursor ==
    poll.outcome \in {"unavailable", "error"} =>
        /\ confirmed_events = <<>>
        /\ last_scanned_block = poll.before

C7_Witness ==
    /\ poll.outcome = "error"
    /\ poll.queried
    /\ poll.before < poll.to_block
    /\ last_scanned_block = poll.before
    /\ pc = "sleep"

\* C8 (as claimed): over the whole run, rewinds included, each payload
\* handed to dispatch has a source block number not below the previous one.
C8_DispatchOrder ==
    Len(handed) = 2 =>
        handed[1].sourceBlockNumber <= handed[2].sourceBlockNumber

\* C8 (amended): as long as no BlockNotFound rewind has happened, each
\* payload handed to dispatch has a source block number not below the
\* previous one.
C8_DispatchOrderUntilRewind ==
    ~rewound => C8_DispatchOrder

C8_Witness ==
    /\ ~rewound
    /\ Len(handed) = 2
    /\ handed[1].sourceBlockNumber <= poll.before
    /\ handed[2].sourceBlockNumber > poll.before
    /\ poll.outcome = "ok"

\* C9: a malformed event is dropped without process_event raising, and when
\* the iteration is over every event of the batch has been processed.
C9_MalformedOnlyDropped ==
    /\ caught # "process"
    /\ pc \in {"sleep", "backoff"} => i > Len(confirmed_events)

\* C10: the orchestrator is Stopped only when every event of the batch
\* already scanned has been processed and its dispatch has returned.
C10_StopsAtBoundary ==
    (pc = "stopped" /\ ~is_running) => i > Len(confirmed_events)

\* C11: once a delivery of the batch has failed, the iteration does not take
\* the back-off path, and it reaches the poll sleep only with every event of
\* the batch processed and no delivery pending.
C11_FailedDeliveryDoesNotBlock ==
    (\E k \in 1..Len(trace) : trace[k] = "failed") =>
        /\ pc # "backoff"
        /\ pc = "sleep" =>
              /\ Len(trace) = Len(confirmed_events)
              /\ \A k \in 1..Len(trace) : trace[k] # "pending"

\* C12: the delivery attempts made equal the signatures that succeeded; an
\* event not signed has no attempt, a signed one exactly one.
C12_OneAttemptPerSignature ==
    /\ attempts = signatures
    /\ signatures =
         Cardinality({k \in 1..Len(trace) :
                        trace[k] \in {"pending", "delivered", "failed"}})

C12_Witness ==
    /\ Len(trace) = 2
    /\ trace[1] = "failed"
    /\ trace[2] = "unsigned"
    /\ attempts = 1
    /\ pc = "sleep"

\* C13: the orchestrator is Running whenever it is in the back-off, and once
\* the catch-all has absorbed an exception of the iteration run() does not
\* end by raising to its caller.
C13_RunNeverRaises ==
    /\ pc = "backoff" => is_running
    /\ caught # "none" => pc # "aborted"

\* C14: with a configuration error (no validator key, a start_block that is
\* neither 'latest' nor an integer, no contract) the orchestrator never
\* runs: no scan, no process step and no dispatch is ever performed.
ConfigurationError(cfg) ==
    \/ cfg.private_key = ""
    \/ cfg.start_block.kind \notin {"latest", "int"}
    \/ ~cfg.contract_ok

C14_ConfigErrorIsFatal ==
    ConfigurationError(config) =>
        /\ pc \in {"idle", "crashed"}
        /\ ~is_running
        /\ poll = NoPoll
        /\ trace = <<>>
        /\ handed = <<>>
        /\ attempts = 0

C14_Witness ==
    /\ pc = "crashed"
    /\ config.private_key = "key"
    /\ config.contract_ok
    /\ config.listener_in_source
    /\ config.start_block.kind = "other"
    /\ head > MaxStart

\* what the trace says of an event that was handed to dispatch
Dispatched == {"unsigned", "pending", "delivered", "failed"}

Pending == {k \in 1..Len(trace) : trace[k] = "pending"}

\* C15: an event of the batch whose destinationChainId is not the configured
\* one yields no payload and no dispatch, no payload handed to dispatch has
\* another destination, and the cursor stays where the scan put it.
C15_OtherDestinationSkipped ==
    /\ \A k \in 1..Len(trace) :
          confirmed_events[k].args.destinationChainId # DestChainId =>
              /\ trace[k] = "dropped"
              /\ poll.outcome = "ok"
              /\ last_scanned_block = poll.to_block
    /\ \A k \in 1..Len(handed) : handed[k].destinationChainId = DestChainId

C15_Witness ==
    /\ Len(trace) = 2
    /\ confirmed_events[1].args.destinationChainId = OtherChainId
    /\ trace = <<"dropped", "delivered">>
    /\ attempts = 1
    /\ last_scanned_block = poll.to_block
    /\ pc = "sleep"

\* C16: a well-formed event of the batch with the configured destination
\* has been handed to dispatch as a payload, and the payload carries the
\* event's sender, receiver, amount, nonce, block number and transaction
\* hash and the configured source chain id.
WellFormed(event) ==
    /\ event.missing = {}
    /\ event.transactionHash.type = "bytes"

C16_PayloadOfEvent ==
    /\ \A k \in 1..Len(trace) :
          (WellFormed(confirmed_events[k])
             /\ confirmed_events[k].args.destinationChainId = DestChainId)
          => trace[k] \in Dispatched
    /\ (trace # <<>> /\ Last(trace) \in Dispatched) =>
          LET event == confirmed_events[Len(trace)]
              payload == Last(handed) IN
          /\ payload.sender = event.args.sender
          /\ payload.receiver = event.args.receiver
          /\ payload.amount = event.args.amount
          /\ payload.nonce = event.args.nonce
          /\ payload.sourceBlockNumber = event.blockNumber
          /\ payload.sourceTransactionHash = event.transactionHash.hex
          /\ payload.sourceChainId = SourceChainId
          /\ payload.destinationChainId = DestChainId

C16_Witness ==
    /\ pc = "dispatch"
    /\ i = 2
    /\ trace = <<"dropped", "pending">>
    /\ Last(handed).sourceBlockNumber = confirmed_events[2].blockNumber
    /\ Last(handed).nonce = confirmed_events[2].args.nonce

\* C18: the events of the batch are handled one after the other in the
\* order of the batch: entry k of the trace is what process_event makes of
\* event k, and while event i is processed or dispatched every earlier
\* dispatch has returned.
C18_InBatchOrder ==
    /\ Len(trace) <= Len(confirmed_events)
    /\ \A k \in 1..Len(trace) :
          LET r == ProcessEvent(confirmed_events[k]).outcome IN
          /\ r = "none" <=> trace[k] = "dropped"
          /\ r = "raise" <=> trace[k] = "raised"
          /\ r = "payload" <=> trace[k] \in Dispatched
    /\ pc = "process" =>
          /\ Len(trace) = i - 1
          /\ Pending = {}
    /\ pc = "dispatch" =>
          /\ Len(trace) = i
          /\ Pending = {i}
          /\ Last(handed) = Payload(confirmed_events[i])

C18_Witness ==
    /\ pc = "dispatch"
    /\ i = 2
    /\ trace = <<"failed", "pending">>
    /\ handed = <<Payload(confirmed_events[1]), Payload(confirmed_events[2])>>
    /\ confirmed_events[1].blockNumber < confirmed_events[2].blockNumber

\* C19: at most one delivery is in flight, and none while the loop is about
\* to scan, sleeps or backs off: a scan never starts before every dispatch
\* of the previous batch has returned.
C19_OneInFlight ==
    /\ Cardinality(Pending) <= 1
    /\ pc \in {"scan", "sleep", "backoff"} => Pending = {}
    /\ Pending # {} => pc \in {"dispatch", "stopped", "aborted"}

C19_Witness ==
    /\ pc = "sleep"
    /\ trace = <<"delivered", "failed">>
    /\ signatures = 2
    /\ Pending = {}

\* C20: only a scan step changes the cursor.
C20_OnlyScanMovesCursor ==
    [][last_scanned_block' # last_scanned_block =>
          (pc = "scan" /\ poll' # poll)]_vars

C20_Witness ==
    /\ pc = "stopped"
    /\ caught = "none"
    /\ trace = <<"failed", "dropped">>
    /\ poll.outcome = "ok"
    /\ last_scanned_block = poll.to_block
    /\ poll.before < last_scanned_block

\* C17: two payload dicts serialise to the same message exactly when they
\* hold the same value for each of the eight fields, whatever the order in
\* which the fields were inserted.
SameFields(a, b) ==
    \A n \in 1..Len(KeyOrder) : ValueOf(a, KeyOrder[n]) = ValueOf(b, KeyOrder[n])

C17_CanonicalSerialisation ==
    (ser.message_a # <<>> /\ ser.message_b # <<>>) =>
        (ser.message_a = ser.message_b <=> SameFields(ser.a, ser.b))

C17_Witness ==
    /\ ser.message_a # <<>>
    /\ ser.message_a = ser.message_b
    /\ ser.a = Reverse(ser.b)
    /\ ValueOf(ser.a, "amount") = StrValue("1")

\* the range of the log query of the poll on record
Range(p) == p.from_block..p.to_block

\* C21: as long as no BlockNotFound rewind has happened, a log query that
\* succeeds has a non-empty range that starts right after the end of the
\* previous successful range (right after the initial cursor for the first),
\* is disjoint from every earlier successful range, and returns no entry of
\* a block queried before; and a payload handed to dispatch never comes
\* from a block of an earlier successful range.
C21_DisjointContiguousRanges ==
    [][/\ (pc = "scan" /\ poll'.outcome = "ok" /\ ~rewound) =>
            /\ Range(poll') # {}
            /\ Range(poll') \cap covered = {}
            /\ covered = (start_block + 1)..(poll'.from_block - 1)
            /\ \A k \in 1..Len(poll'.entries) :
                  poll'.entries[k].blockNumber \notin covered
       /\ (/\ pc = "process"
           /\ Len(trace') > Len(trace)
           /\ Last(trace') \in Dispatched
           /\ ~rewound) =>
            Last(handed').sourceBlockNumber \notin (covered \ Range(poll))
      ]_vars

C21_Witness ==
    /\ ~rewound
    /\ poll.outcome = "ok"
    /\ poll.from_block > start_block + 1
    /\ poll.from_block < poll.to_block
    /\ pc = "dispatch"
    /\ Len(handed) = 2
    /\ handed[1].sourceBlockNumber < poll.from_block
    /\ handed[2].sourceBlockNumber = poll.from_block

\* the connector is available and the log query of the poll on record, if
\* there was one, succeeded; run() has not been stopped or cancelled
Healthy ==
    /\ pc \notin {"stopped", "aborted"}
    /\ poll.outcome \in {"none", "nothing_new", "ok"}

\* the events process_event turns into a payload for the destination chain
Due == {EventAt(b, DestChainId, BytesHash, {}) : b \in 1..MaxHead}

\* event e is in the batch run() holds and has not been handled yet
Awaiting(e) ==
    /\ pc = "process"
    /\ \E k \in i..Len(confirmed_events) : confirmed_events[k] = e

\* C22, first half: once scans stop failing, the cursor catches up with
\* every head the chain reaches, less the confirmation depth.
C22_CursorCatchesUp ==
    (<>[]Healthy) =>
        \A h \in 0..MaxHead : [](head = h => <>(last_scanned_block >= h - d))

\* C22: under weak fairness of the loop, if from some point on the connector
\* is available and log queries succeed, the cursor eventually reaches
\* h - confirmation_depth for every head h the chain reaches, and every
\* well-formed event with the configured destination that a scan returned
\* is eventually handed to dispatch.
C22_Liveness ==
    (<>[]Healthy) =>
        /\ \A h \in 0..MaxHead :
              [](head = h => <>(last_scanned_block >= h - d))
        /\ \A e \in Due :
              [](Awaiting(e) => <>(handed # <<>> /\ Last(handed) = Payload(e)))

\* a rules entry that is a group object: a dict with 'combinator' and 'rules'
IsGroupObject(entry) ==
    entry.type = "dict" /\ {"combinator", "rules"} \subseteq entry.keys

\* a rule with the three required keys, a known field, an operator the
\* field allows and a value that is not empty
ValidRule(entry) ==
    /\ entry.type = "dict"
    /\ ~IsGroupObject(entry)
    /\ {"field", "operator", "value"} \subseteq entry.keys
    /\ entry.field \in FieldNames
    /\ HasOperators(entry.field) => entry.operator \in OperatorsOf(entry.field)
    /\ entry.value # ""

\* a group with a combinator of the builder whose rules are valid rules and
\* valid nested groups only
RECURSIVE ValidGroup(_)
ValidGroup(query) ==
    /\ IsGroupObject(query)
    /\ query.combinator \in {"and", "or"}
    /\ query.rules_is_list
    /\ \A k \in 1..Len(query.rules) :
          \/ ValidRule(query.rules[k])
          \/ IsGroupObject(query.rules[k]) /\ ValidGroup(query.rules[k])

ReportedAt(path) == \E n \in 1..Len(val.errors) : val.errors[n].path = path

\* C23: a query made of valid rules and valid nested group objects only
\* validates with no errors, and an invalid rule inside a nested group
\* object is reported with the path <<index of the group, index of the rule>>.
C23_NestedGroupsValidated ==
    val.validated =>
        /\ ValidGroup(val.query) => val.errors = <<>>
        /\ (IsGroupObject(val.query) /\ val.query.rules_is_list) =>
              \A j \in 1..Len(val.query.rules) :
                 LET group == val.query.rules[j] IN
                 (IsGroupObject(group) /\ group.rules_is_list) =>
                     \A k \in 1..Len(group.rules) :
                        (/\ group.rules[k].type = "dict"
                         /\ ~IsGroupObject(group.rules[k])
                         /\ ~ValidRule(group.rules[k]))
                        => ReportedAt(<<IndexStr(j - 1), IndexStr(k - 1)>>)
====
